---- MODULE Spec2Model ----
(***************************************************************************)
(* A model of the money-movement core of simple-bank-api:                  *)
(*   - the Redis lock client of server/utils/cache.py (RedisLock), with    *)
(*     the Redis key/value/TTL store it talks to, and                      *)
(*   - the settlement strategies of server/utils/strategies.py, run by     *)
(*     several workers on the shared account rows,                         *)
(*   - the request path of server/controllers/transactions.py              *)
(*     (initiate_transaction, the scheduler queue), and                    *)
(*   - generate_transaction_code and TransactionFactory.create,            *)
(*   - the task queue of server/utils/queues.py with its workers,          *)
(*   - create_user_account and fetch_transaction_by_code.                  *)
(* Amounts are counted in the smallest currency unit (DECIMAL(20, 2)).     *)
(***************************************************************************)
EXTENDS Integers, Sequences, FiniteSets, TLC

\* ------------------------------------------------------------------ bounds
NumLocks == 2          \* RedisLock instances
NumAccounts == 2       \* account rows
MaxClock == 2          \* clock readings 0..MaxClock
LockTimeout == 2       \* the default lock_timeout (30 s), in ticks of the clock
MaxBalance == 2        \* opening balances 0..MaxBalance
MaxAmount == 2         \* transaction amounts 1..MaxAmount
NumTxns == 2           \* transactions settled concurrently
MaxCodes == 2          \* calls of generate_transaction_code that are logged
NumUsers == 2          \* users of the bank
MaxTax == 1            \* tax / fee of a request 0..MaxTax
MaxCalls == 2          \* requests served by the orchestrator
BucketTicks == 2       \* clock readings that make one timestamp bucket

Inst == 1..NumLocks
Accounts == 1..NumAccounts
Txns == 1..NumTxns

\* Python's None, as a value comparable with the str and bytes values below.
None == <<"None">>

VARIABLES
  now,      \* the reading of the wall clock (datetime.now().timestamp())
  redis,    \* the Redis store: a function from the keys that exist to
            \*   [value, ttl, by]; ttl = -1 is a key without expiry, by is
            \*   the RedisLock instance whose SET created the key (history)
  lock,     \* the RedisLock instances
  balance,  \* Account.balance of every account row
  opening,  \* the balance every account started with (history)
  txn,      \* the transaction rows
  proc,     \* the execution of each transaction's strategy by its worker
  rows,     \* the transactions table as the request path fills it
  queue,    \* the work items handed to the scheduler queue
  resp,     \* the outcome of the last call made by a client
  calls,    \* how many requests have been served
  codes,    \* the calls of the pure functions so far (history)
  jobs,     \* the work items of the task queue and what became of them
  accts     \* the accounts table as create_user_account fills it, and
            \*   the requests that are opening an account

lockVars == <<now, redis, lock>>
bankVars == <<balance, opening, txn, proc>>
reqVars == <<rows, queue, resp, calls, codes, jobs, accts>>
vars == <<now, redis, lock, balance, opening, txn, proc,
          rows, queue, resp, calls, codes, jobs, accts>>

\* ------------------------------------------------------------- texts
\* A str is the sequence of its characters.
Digit == <<"0", "1", "2", "3", "4", "5", "6", "7", "8", "9">>

\* str(n) of a natural number
RECURSIVE StrInt(_)
StrInt(n) ==
  IF n < 10 THEN <<Digit[n + 1]>>
            ELSE StrInt(n \div 10) \o <<Digit[(n % 10) + 1]>>

\* ------------------------------------------------------------- lock keys
\* the key without the "-" between the class name and the id
construct_resource_lock_key_NoSeparator(cls, id) ==
  <<"l", "o", "c", "k", ":">> \o cls \o StrInt(id)

\* f"lock:{instance.__class__.__name__}-{instance.id}": the text made of
\* "lock:", the class name, "-" and str(id)
construct_resource_lock_key(cls, id) ==
  <<"l", "o", "c", "k", ":">> \o cls \o <<"-">> \o StrInt(id)

\* Account.lock_key
lock_key(a) ==
  construct_resource_lock_key(<<"A", "c", "c", "o", "u", "n", "t">>, a)

\* The lock clients contend for the lock of one account: Redis keys are
\* independent of each other.
LockKeys == {lock_key(1)}

\* ------------------------------------------------------- str and bytes
\* str(timestamp): the text of a clock reading
Str(reading) == <<"str", reading>>

\* what redis-py sends for a str value, and what GET returns: bytes
Encode(s) == <<"bytes", s[2]>>

\* bytes.decode()
Decode(b) == <<"str", b[2]>>

\* ---------------------------------------------------------------- RedisLock
NoLock ==
  [pc |-> "new", key |-> None, lock_timeout |-> 0, lock_value |-> None,
   is_locked |-> FALSE, current_value |-> None, lease |-> 0, ctx |-> ""]

\* RedisLock.__init__ with the default lock_timeout: the token is the text of
\* the current clock reading.
Construct(i, k) ==
  /\ lock[i].pc = "new"
  /\ now < MaxClock
  /\ lock' = [lock EXCEPT ![i] =
                [pc |-> "ready", key |-> k, lock_timeout |-> LockTimeout,
                 lock_value |-> Str(now), is_locked |-> FALSE,
                 current_value |-> None, lease |-> 0, ctx |-> ""]]
  /\ UNCHANGED <<now, redis>>
  /\ UNCHANGED bankVars
  /\ UNCHANGED reqVars

\* RedisLock.acquire: one SET key value EX lock_timeout NX.  The reply is
\* True when the key was set and None (falsy) when it already existed.
\* is_locked keeps the reply until the instance releases; an instance whose
\* acquire succeeded releases before it acquires again.  lease counts the
\* time left of the TTL this acquisition was given (history).
Acquire_NoExpiry(i) ==
  /\ lock[i].pc = "ready"
  /\ ~lock[i].is_locked
  /\ IF lock[i].key \in DOMAIN redis
       THEN /\ lock' = [lock EXCEPT ![i].is_locked = FALSE]
            /\ redis' = redis
       ELSE /\ redis' = [k \in DOMAIN redis \cup {lock[i].key} |->
                           IF k = lock[i].key
                             THEN [value |-> Encode(lock[i].lock_value),
                                   ttl |-> -1, by |-> i]
                             ELSE redis[k]]
            /\ lock' = [lock EXCEPT ![i].is_locked = TRUE,
                                    ![i].lease = lock[i].lock_timeout]
  /\ UNCHANGED now
  /\ UNCHANGED bankVars
  /\ UNCHANGED reqVars

Acquire(i) ==
  /\ lock[i].pc = "ready"
  /\ ~lock[i].is_locked
  /\ IF lock[i].key \in DOMAIN redis
       THEN /\ lock' = [lock EXCEPT ![i].is_locked = FALSE]
            /\ redis' = redis
       ELSE /\ redis' = [k \in DOMAIN redis \cup {lock[i].key} |->
                           IF k = lock[i].key
                             THEN [value |-> Encode(lock[i].lock_value),
                                   ttl |-> lock[i].lock_timeout, by |-> i]
                             ELSE redis[k]]
            /\ lock' = [lock EXCEPT ![i].is_locked = TRUE,
                                    ![i].lease = lock[i].lock_timeout]
  /\ UNCHANGED now
  /\ UNCHANGED bankVars
  /\ UNCHANGED reqVars

\* RedisLock.release, first command: current_value = GET key
ReleaseGet(i) ==
  /\ lock[i].pc = "ready"
  /\ lock[i].is_locked
  /\ lock' = [lock EXCEPT ![i].pc = "release",
                          ![i].current_value =
                             IF lock[i].key \in DOMAIN redis
                               THEN redis[lock[i].key].value
                               ELSE None]
  /\ UNCHANGED <<now, redis>>
  /\ UNCHANGED bankVars
  /\ UNCHANGED reqVars

\* RedisLock.release, the comparison of the value read and the second
\* command: DEL key when current_value.decode() == lock_value
ReleaseDelete(i) ==
  /\ lock[i].pc = "release"
  /\ IF lock[i].current_value # None
        /\ Decode(lock[i].current_value) = lock[i].lock_value
       THEN redis' = [k \in DOMAIN redis \ {lock[i].key} |-> redis[k]]
       ELSE redis' = redis
  /\ lock' = [lock EXCEPT ![i].pc = "ready", ![i].is_locked = FALSE,
                          ![i].current_value = None, ![i].lease = 0]
  /\ UNCHANGED now
  /\ UNCHANGED bankVars
  /\ UNCHANGED reqVars

\* The worker dies between its acquire and the end of its release; it
\* issues no further command.
Crash(i) ==
  /\ lock[i].pc \in {"ready", "release"}
  /\ lock[i].is_locked
  /\ lock' = [lock EXCEPT ![i].pc = "crashed", ![i].current_value = None]
  /\ UNCHANGED <<now, redis>>
  /\ UNCHANGED bankVars
  /\ UNCHANGED reqVars

\* One unit of time passes: the clock reading grows (up to MaxClock), every
\* TTL shrinks, and Redis drops the keys whose TTL has run out.
Tick ==
  /\ now' = IF now < MaxClock THEN now + 1 ELSE now
  /\ redis' = [k \in {x \in DOMAIN redis : redis[x].ttl # 1} |->
                 IF redis[k].ttl > 1
                   THEN [redis[k] EXCEPT !.ttl = @ - 1]
                   ELSE redis[k]]
  /\ lock' = [i \in Inst |->
                [lock[i] EXCEPT !.lease = IF @ > 0 THEN @ - 1 ELSE 0]]
  /\ UNCHANGED bankVars
  /\ UNCHANGED reqVars

\* ------------------------------------------- RedisLock as context manager
\* "async with RedisLock(...):" -- ctx is the position of the block:
\* "" before it, "body" inside it, "returned" / "raised" when the body has
\* ended that way and __aexit__ is to run, "left_returned" / "left_raised"
\* when __aexit__ has returned, "refused" when __aenter__ raised.

\* RedisLock.__aenter__: acquire(); BadRequest("Resource is currently
\* locked") when the reply is falsy, and then the block is never entered.
AEnter(i) ==
  /\ lock[i].pc = "ready"
  /\ lock[i].ctx = ""
  /\ ~lock[i].is_locked
  /\ IF lock[i].key \in DOMAIN redis
       THEN /\ lock' = [lock EXCEPT ![i].is_locked = FALSE,
                                    ![i].ctx = "refused"]
            /\ redis' = redis
       ELSE /\ redis' = [k \in DOMAIN redis \cup {lock[i].key} |->
                           IF k = lock[i].key
                             THEN [value |-> Encode(lock[i].lock_value),
                                   ttl |-> lock[i].lock_timeout, by |-> i]
                             ELSE redis[k]]
            /\ lock' = [lock EXCEPT ![i].is_locked = TRUE,
                                    ![i].lease = lock[i].lock_timeout,
                                    ![i].ctx = "body"]
  /\ UNCHANGED now
  /\ UNCHANGED bankVars
  /\ UNCHANGED reqVars

\* The body of the block ends: it returns, or an error is raised in it (an
\* inner "async with" whose __aenter__ raised included).
BodyEnds(i, how) ==
  /\ lock[i].ctx = "body"
  /\ lock' = [lock EXCEPT ![i].ctx = how]
  /\ UNCHANGED <<now, redis>>
  /\ UNCHANGED bankVars
  /\ UNCHANGED reqVars

\* RedisLock.__aexit__(exc_type, exc_val, exc_tb): release(), whatever
\* exc_type is.  This is the GET of release; ReleaseDelete is its end.
AExit_OnlyWithoutError(i) ==
  /\ lock[i].ctx \in {"returned", "raised"}
  /\ lock[i].pc = "ready"
  /\ lock[i].is_locked
  /\ IF lock[i].ctx = "returned"
       THEN ReleaseGet(i)
       ELSE /\ lock' = [lock EXCEPT ![i].ctx = "left_raised"]
            /\ UNCHANGED <<now, redis>>
            /\ UNCHANGED bankVars
            /\ UNCHANGED reqVars

AExit(i) ==
  /\ lock[i].ctx \in {"returned", "raised"}
  /\ ReleaseGet(i)

\* __aexit__ returns None: the block is left, the error (if any) goes on.
AExitReturn(i) ==
  /\ lock[i].ctx \in {"returned", "raised"}
  /\ lock[i].pc = "ready"
  /\ ~lock[i].is_locked
  /\ lock' = [lock EXCEPT ![i].ctx = IF @ = "returned" THEN "left_returned"
                                                      ELSE "left_raised"]
  /\ UNCHANGED <<now, redis>>
  /\ UNCHANGED bankVars
  /\ UNCHANGED reqVars

\* --------------------------------------------------- settlement strategies
\* A transaction row as the strategies read it.  target_account_id is
\* metadata.get("target_account_id"): 0 when the key is missing.
TxnShapes ==
  [strategy : {"CreditTransaction", "WithdrawalTransaction"},
   account_id : Accounts, amount : 1..MaxAmount,
   target_account_id : {0}, status : {"pending"}]
  \cup
  [strategy : {"TransferTransaction"},
   account_id : Accounts, amount : 1..MaxAmount,
   target_account_id : Accounts \cup {0}, status : {"pending"}]

\* An execution that has not begun: it holds no RedisLock (locks is the
\* sequence of the instances it has asked to acquire).
NoProc == [pc |-> "start", tmp |-> 0, error |-> "", locks |-> << >>]

\* The workers share the account rows.  Each statement of a strategy that
\* uses Account.balance is a read of the row, and "balance += x" and
\* "balance -= x" are a read followed by a write of the value computed from
\* it; the steps of different workers interleave between the two.

\* CreditTransaction.execute: transaction.account.balance += amount (read)
CreditRead(t) ==
  /\ txn[t].strategy = "CreditTransaction"
  /\ proc[t].pc = "start"
  /\ proc' = [proc EXCEPT ![t].pc = "credit_write",
                          ![t].tmp = balance[txn[t].account_id]]
  /\ UNCHANGED <<balance, opening, txn>>
  /\ UNCHANGED lockVars
  /\ UNCHANGED reqVars

\* CreditTransaction.execute: transaction.account.balance += amount (write)
CreditWrite(t) ==
  /\ txn[t].strategy = "CreditTransaction"
  /\ proc[t].pc = "credit_write"
  /\ balance' = [balance EXCEPT ![txn[t].account_id] =
                                   proc[t].tmp + txn[t].amount]
  /\ proc' = [proc EXCEPT ![t].pc = "done"]
  /\ UNCHANGED <<opening, txn>>
  /\ UNCHANGED lockVars
  /\ UNCHANGED reqVars

\* WithdrawalTransaction.execute: if balance < amount: raise ValueError
WithdrawalCheck_MarksSuccessFirst(t) ==
  /\ txn[t].strategy = "WithdrawalTransaction"
  /\ proc[t].pc = "start"
  /\ txn' = [txn EXCEPT ![t].status = "success"]
  /\ IF balance[txn[t].account_id] < txn[t].amount
       THEN proc' = [proc EXCEPT ![t].pc = "raised",
                               ![t].error = "ValueError: Insufficient funds"]
       ELSE proc' = [proc EXCEPT ![t].pc = "debit_read"]
  /\ UNCHANGED <<balance, opening>>
  /\ UNCHANGED lockVars
  /\ UNCHANGED reqVars

WithdrawalCheck(t) ==
  /\ txn[t].strategy = "WithdrawalTransaction"
  /\ proc[t].pc = "start"
  /\ IF balance[txn[t].account_id] < txn[t].amount
       THEN proc' = [proc EXCEPT ![t].pc = "raised",
                               ![t].error = "ValueError: Insufficient funds"]
       ELSE proc' = [proc EXCEPT ![t].pc = "debit_read"]
  /\ UNCHANGED <<balance, opening, txn>>
  /\ UNCHANGED lockVars
  /\ UNCHANGED reqVars

\* WithdrawalTransaction.execute: transaction.account.balance -= amount (read)
WithdrawalRead(t) ==
  /\ txn[t].strategy = "WithdrawalTransaction"
  /\ proc[t].pc = "debit_read"
  /\ proc' = [proc EXCEPT ![t].pc = "debit_write",
                          ![t].tmp = balance[txn[t].account_id]]
  /\ UNCHANGED <<balance, opening, txn>>
  /\ UNCHANGED lockVars
  /\ UNCHANGED reqVars

\* WithdrawalTransaction.execute: transaction.account.balance -= amount (write)
WithdrawalWrite(t) ==
  /\ txn[t].strategy = "WithdrawalTransaction"
  /\ proc[t].pc = "debit_write"
  /\ balance' = [balance EXCEPT ![txn[t].account_id] =
                                   proc[t].tmp - txn[t].amount]
  /\ proc' = [proc EXCEPT ![t].pc = "done"]
  /\ UNCHANGED <<opening, txn>>
  /\ UNCHANGED lockVars
  /\ UNCHANGED reqVars

\* TransferTransaction.execute up to the funds check: the target id is taken
\* from the metadata (ValueError when it is missing), the target account is
\* fetched (session is taken to be at hand, as the comment before
\* session.get assumes), and the source balance is compared with the amount.
TransferCheck(t) ==
  /\ txn[t].strategy = "TransferTransaction"
  /\ proc[t].pc = "start"
  /\ IF txn[t].target_account_id = 0
       THEN proc' = [proc EXCEPT ![t].pc = "raised",
                       ![t].error = "ValueError: Target account ID must be specified for transfers"]
       ELSE IF balance[txn[t].account_id] < txn[t].amount
              THEN proc' = [proc EXCEPT ![t].pc = "raised",
                               ![t].error = "ValueError: Insufficient funds"]
              ELSE proc' = [proc EXCEPT ![t].pc = "debit_read"]
  /\ UNCHANGED <<balance, opening, txn>>
  /\ UNCHANGED lockVars
  /\ UNCHANGED reqVars

\* TransferTransaction.execute: source_account.balance -= amount (read)
TransferDebitRead(t) ==
  /\ txn[t].strategy = "TransferTransaction"
  /\ proc[t].pc = "debit_read"
  /\ proc' = [proc EXCEPT ![t].pc = "debit_write",
                          ![t].tmp = balance[txn[t].account_id]]
  /\ UNCHANGED <<balance, opening, txn>>
  /\ UNCHANGED lockVars
  /\ UNCHANGED reqVars

\* TransferTransaction.execute: source_account.balance -= amount (write)
TransferDebitWrite(t) ==
  /\ txn[t].strategy = "TransferTransaction"
  /\ proc[t].pc = "debit_write"
  /\ balance' = [balance EXCEPT ![txn[t].account_id] =
                                   proc[t].tmp - txn[t].amount]
  /\ proc' = [proc EXCEPT ![t].pc = "credit_read"]
  /\ UNCHANGED <<opening, txn>>
  /\ UNCHANGED lockVars
  /\ UNCHANGED reqVars

\* TransferTransaction.execute: target_account.balance += amount (read).
\* session.get(Account, id) gave None for an id that no account row has,
\* and reading the balance of None raises AttributeError.
TransferCreditRead(t) ==
  /\ txn[t].strategy = "TransferTransaction"
  /\ proc[t].pc = "credit_read"
  /\ IF txn[t].target_account_id \in DOMAIN balance
       THEN proc' = [proc EXCEPT ![t].pc = "credit_write",
                                 ![t].tmp = balance[txn[t].target_account_id]]
       ELSE proc' = [proc EXCEPT ![t].pc = "raised",
                       ![t].error = "AttributeError: 'NoneType' object has no attribute 'balance'"]
  /\ UNCHANGED <<balance, opening, txn>>
  /\ UNCHANGED lockVars
  /\ UNCHANGED reqVars

\* TransferTransaction.execute: target_account.balance += amount (write)
TransferCreditWrite(t) ==
  /\ txn[t].strategy = "TransferTransaction"
  /\ proc[t].pc = "credit_write"
  /\ balance' = [balance EXCEPT ![txn[t].target_account_id] =
                                   proc[t].tmp + txn[t].amount]
  /\ proc' = [proc EXCEPT ![t].pc = "done"]
  /\ UNCHANGED <<opening, txn>>
  /\ UNCHANGED lockVars
  /\ UNCHANGED reqVars

\* No request has been served and no code generated.
NoRequests ==
  /\ rows = << >>
  /\ queue = << >>
  /\ resp = [op |-> ""]
  /\ calls = 0
  /\ codes = {}
  /\ jobs = << >>
  /\ accts = << >>

\* The accounts are open with some balance, every transaction is PENDING
\* and in the hands of a worker; no RedisLock exists.
Init ==
  /\ now = 0
  /\ redis = << >>
  /\ lock = [i \in Inst |-> NoLock]
  /\ balance \in [Accounts -> 0..MaxBalance]
  /\ opening = balance
  /\ txn \in [Txns -> TxnShapes]
  /\ proc = [t \in Txns |-> NoProc]
  /\ NoRequests

Next ==
  \/ \E t \in Txns : CreditRead(t)
  \/ \E t \in Txns : CreditWrite(t)
  \/ \E t \in Txns : WithdrawalCheck(t)
  \/ \E t \in Txns : WithdrawalRead(t)
  \/ \E t \in Txns : WithdrawalWrite(t)
  \/ \E t \in Txns : TransferCheck(t)
  \/ \E t \in Txns : TransferDebitRead(t)
  \/ \E t \in Txns : TransferDebitWrite(t)
  \/ \E t \in Txns : TransferCreditRead(t)
  \/ \E t \in Txns : TransferCreditWrite(t)

Spec == Init /\ [][Next]_vars

\* ------------------------------------------------- one worker, one job
\* An execution is between its first and its last statement.
Busy(t) == proc[t].pc \notin {"start", "done", "raised", "idle"}

\* process_transaction_in_background run by a single worker: a job is taken
\* up only when the job before it has returned or raised.
Alone(t) == \A u \in Txns \ {t} : ~Busy(u)

NextSeq ==
  \/ \E t \in Txns : Alone(t) /\ CreditRead(t)
  \/ \E t \in Txns : Alone(t) /\ CreditWrite(t)
  \/ \E t \in Txns : Alone(t) /\ WithdrawalCheck(t)
  \/ \E t \in Txns : Alone(t) /\ WithdrawalRead(t)
  \/ \E t \in Txns : Alone(t) /\ WithdrawalWrite(t)
  \/ \E t \in Txns : Alone(t) /\ TransferCheck(t)
  \/ \E t \in Txns : Alone(t) /\ TransferDebitRead(t)
  \/ \E t \in Txns : Alone(t) /\ TransferDebitWrite(t)
  \/ \E t \in Txns : Alone(t) /\ TransferCreditRead(t)
  \/ \E t \in Txns : Alone(t) /\ TransferCreditWrite(t)

SpecSeq == Init /\ [][NextSeq]_vars

\* A single job: transaction 1 is in the hands of a worker, the other rows
\* are PENDING credits nobody has enqueued.
InitOne ==
  /\ now = 0
  /\ redis = << >>
  /\ lock = [i \in Inst |-> NoLock]
  /\ balance \in [Accounts -> 0..MaxBalance]
  /\ opening = balance
  /\ txn \in {f \in [Txns -> TxnShapes] :
               \A t \in Txns \ {1} :
                 f[t] = [strategy |-> "CreditTransaction", account_id |-> 1,
                         amount |-> 1, target_account_id |-> 0,
                         status |-> "pending"]}
  /\ proc = [t \in Txns |-> IF t = 1 THEN NoProc
                                     ELSE [NoProc EXCEPT !.pc = "idle"]]
  /\ NoRequests

SpecOne == InitOne /\ [][Next]_vars

\* ------------------------------------------------- the status column
\* TransactionStatus
Statuses == {"failed", "success", "pending"}

\* Account.update_transaction_status(code, status, session) on account a
\* with the code of transaction t: the row is looked up by account_id and
\* code, and when it is found its status is assigned.
update_transaction_status(a, t, status) ==
  /\ IF txn[t].account_id = a
       THEN txn' = [txn EXCEPT ![t].status = status]
       ELSE txn' = txn
  /\ UNCHANGED <<balance, opening, proc>>
  /\ UNCHANGED lockVars
  /\ UNCHANGED reqVars

NextStatus ==
  \/ Next
  \/ \E a \in Accounts, t \in Txns, status \in Statuses :
       update_transaction_status(a, t, status)

SpecStatus == Init /\ [][NextStatus]_vars

\* ------------------------------------------------- settlement properties
\* The strategy returned without raising: its settlement succeeded.
Succeeded(t) == proc[t].pc = "done"

\* The execution has ended, by return or by an error.
Terminated(t) == proc[t].pc \in {"done", "raised"}

RECURSIVE SumAmounts(_)
SumAmounts(S) ==
  IF S = {} THEN 0
  ELSE LET t == CHOOSE x \in S : TRUE
       IN txn[t].amount + SumAmounts(S \ {t})

RECURSIVE Total(_, _)
Total(f, S) ==
  IF S = {} THEN 0
  ELSE LET a == CHOOSE x \in S : TRUE
       IN f[a] + Total(f, S \ {a})

\* What the settled transaction t adds to the balance of account a.
Delta(t, a) ==
  CASE txn[t].strategy = "CreditTransaction" ->
         IF txn[t].account_id = a THEN txn[t].amount ELSE 0
    [] txn[t].strategy = "WithdrawalTransaction" ->
         IF txn[t].account_id = a THEN 0 - txn[t].amount ELSE 0
    [] OTHER ->
         (IF txn[t].target_account_id = a THEN txn[t].amount ELSE 0)
         - (IF txn[t].account_id = a THEN txn[t].amount ELSE 0)

RECURSIVE SumDelta(_, _)
SumDelta(S, a) ==
  IF S = {} THEN 0
  ELSE LET t == CHOOSE x \in S : TRUE
       IN Delta(t, a) + SumDelta(S \ {t}, a)

\* The keys of the locks execution t has asked for, in the order of asking.
LockOrder(t) ==
  [n \in 1..Len(proc[t].locks) |-> lock[proc[t].locks[n]].key]

\* Execution t holds the lock of account a: the value stored under the
\* account's key is the token of one of its RedisLock instances, and the key
\* has not expired.
HoldsLock(t, a) ==
  \E n \in 1..Len(proc[t].locks) :
     LET i == proc[t].locks[n]
     IN /\ lock[i].key = lock_key(a)
        /\ lock[i].key \in DOMAIN redis
        /\ Decode(redis[lock[i].key].value) = lock[i].lock_value

\* C1: for every set of withdrawals settled concurrently on one account, the
\* amounts of the withdrawals that succeed never sum to more than the
\* account's starting balance, and the balance is never negative.
C1_WithdrawalsNeverOverdraw ==
  \A a \in Accounts :
     (\A t \in Txns : /\ txn[t].strategy = "WithdrawalTransaction"
                      /\ txn[t].account_id = a)
       => /\ SumAmounts({t \in Txns : Succeeded(t)}) <= opening[a]
          /\ balance[a] >= 0

\* C2: for any number of transfers settled concurrently, the sum of all
\* account balances after settlement is the sum before it: what is debited
\* from a source is credited to exactly one destination.
C2_TransfersConserveTotal ==
  (\A t \in Txns : /\ txn[t].strategy = "TransferTransaction"
                   /\ Terminated(t))
    => Total(balance, Accounts) = Total(opening, Accounts)

\* C3: a step that changes an account's balance is taken only by a worker
\* that holds that account's lock at that moment.
C3_MutationOnlyUnderLock ==
  [][\A a \in Accounts :
        balance'[a] # balance[a]
          => \E t \in Txns : proc'[t] # proc[t] /\ HoldsLock(t, a)]_vars

\* C4: the read-modify-write cycles of concurrent settlements on an account
\* never interleave: when all have ended, every balance is the starting
\* balance plus the credits and minus the debits of the settlements that
\* succeeded (no lost update).
C4_NoLostUpdate ==
  (\A t \in Txns : Terminated(t))
    => \A a \in Accounts :
          balance[a] =
            opening[a] + SumDelta({t \in Txns : Succeeded(t)}, a)

\* C10: two transfers between the same two accounts in opposite directions
\* ask for the two account locks in the same fixed order of account
\* identity, the lock of the lower identity first.
C10_OppositeTransfersLockInFixedOrder ==
  \A t, u \in Txns :
     (/\ t # u
      /\ txn[t].strategy = "TransferTransaction"
      /\ txn[u].strategy = "TransferTransaction"
      /\ txn[t].account_id < txn[t].target_account_id
      /\ txn[u].account_id = txn[t].target_account_id
      /\ txn[u].target_account_id = txn[t].account_id
      /\ Succeeded(t) /\ Succeeded(u))
       => /\ LockOrder(t) = <<lock_key(txn[t].account_id),
                              lock_key(txn[t].target_account_id)>>
          /\ LockOrder(u) = LockOrder(t)

\* ------------------------------------------------- outcome of one job
\* Transaction t is the only job a worker has taken up so far.
OnlyRun(t) == \A u \in Txns \ {t} : proc[u].pc \in {"start", "idle"}

\* C12: a withdrawal of more than the balance ends with an error raised,
\* the transaction FAILED and the balance unchanged.
C12_OverdrawingWithdrawalFails ==
  \A t \in Txns :
    (/\ txn[t].strategy = "WithdrawalTransaction"
     /\ OnlyRun(t)
     /\ Terminated(t)
     /\ opening[txn[t].account_id] < txn[t].amount)
    => /\ proc[t].pc = "raised"
       /\ txn[t].status = "failed"
       /\ balance = opening

\* C13: a withdrawal of at most the balance (the whole balance included)
\* debits the account once by the amount and ends SUCCESS; a withdrawal
\* that follows one which emptied the account fails and leaves it at 0.
C13_CoveredWithdrawalDebitsOnce ==
  /\ \A t \in Txns :
       (/\ txn[t].strategy = "WithdrawalTransaction"
        /\ OnlyRun(t)
        /\ Terminated(t)
        /\ opening[txn[t].account_id] >= txn[t].amount)
       => /\ proc[t].pc = "done"
          /\ balance[txn[t].account_id]
               = opening[txn[t].account_id] - txn[t].amount
          /\ txn[t].status = "success"
  /\ \A t, u \in Txns :
       (/\ t # u
        /\ txn[t].strategy = "WithdrawalTransaction"
        /\ txn[u].strategy = "WithdrawalTransaction"
        /\ txn[u].account_id = txn[t].account_id
        /\ opening[txn[t].account_id] = txn[t].amount
        /\ \A v \in Txns \ {t, u} : proc[v].pc \in {"start", "idle"}
        /\ proc[t].pc = "done"
        /\ Terminated(u))
       => /\ proc[u].pc = "raised"
          /\ balance[txn[t].account_id] = 0

\* C14: a credit on a PENDING transaction raises the balance by the amount
\* and ends SUCCESS.
C14_CreditAddsAmount ==
  \A t \in Txns :
    (/\ txn[t].strategy = "CreditTransaction"
     /\ OnlyRun(t)
     /\ Terminated(t))
    => /\ proc[t].pc = "done"
       /\ balance[txn[t].account_id]
            = opening[txn[t].account_id] + txn[t].amount
       /\ txn[t].status = "success"

\* C15: a transfer of m from a source holding at least m to another account
\* takes m from the source, adds m to the destination and ends SUCCESS.
C15_TransferMovesAmount ==
  \A t \in Txns :
    (/\ txn[t].strategy = "TransferTransaction"
     /\ txn[t].target_account_id \in Accounts \ {txn[t].account_id}
     /\ OnlyRun(t)
     /\ Terminated(t)
     /\ opening[txn[t].account_id] >= txn[t].amount)
    => /\ proc[t].pc = "done"
       /\ balance[txn[t].account_id]
            = opening[txn[t].account_id] - txn[t].amount
       /\ balance[txn[t].target_account_id]
            = opening[txn[t].target_account_id] + txn[t].amount
       /\ txn[t].status = "success"

\* C16: a transfer of more than the source holds ends with an error raised,
\* the transaction FAILED and both balances unchanged.
C16_UncoveredTransferFails ==
  \A t \in Txns :
    (/\ txn[t].strategy = "TransferTransaction"
     /\ txn[t].target_account_id \in Accounts
     /\ OnlyRun(t)
     /\ Terminated(t)
     /\ opening[txn[t].account_id] < txn[t].amount)
    => /\ proc[t].pc = "raised"
       /\ txn[t].status = "failed"
       /\ balance = opening

\* C17: a strategy executed on a transaction that is no longer PENDING is a
\* no-op: the first step of the execution ends it, and no balance changes.
C17_NonPendingIsNoOp ==
  [][\A t \in Txns :
       (/\ txn[t].status # "pending"
        /\ proc[t].pc = "start"
        /\ proc'[t] # proc[t])
       => /\ proc'[t].pc \in {"done", "raised"}
          /\ balance' = balance]_vars

\* C18: a status that is SUCCESS or FAILED never changes again, whatever
\* operation runs (update_transaction_status with any argument included).
C18_TerminalStatusIsFinal ==
  [][\A t \in Txns :
       txn[t].status # "pending" => txn'[t].status = txn[t].status]_vars

\* C19: when the execution of a strategy is over, the transaction it was
\* given has received its terminal status: it is no longer PENDING.
C19_ExecutionWritesTerminalStatus ==
  \A t \in Txns : Terminated(t) => txn[t].status \in {"success", "failed"}

InitLock ==
  /\ now = 0
  /\ redis = << >>
  /\ lock = [i \in Inst |-> NoLock]
  /\ balance = [a \in Accounts |-> 0]
  /\ opening = [a \in Accounts |-> 0]
  /\ txn = << >>
  /\ proc = << >>
  /\ NoRequests

NextLock ==
  \/ \E i \in Inst, k \in LockKeys : Construct(i, k)
  \/ \E i \in Inst : Acquire(i)
  \/ \E i \in Inst : ReleaseGet(i)
  \/ \E i \in Inst : ReleaseDelete(i)
  \/ \E i \in Inst : Crash(i)
  \/ Tick

SpecLock == InitLock /\ [][NextLock]_vars

\* Redis expires keys as time passes, whatever the clients do.
SpecLockLive == InitLock /\ [][NextLock]_vars /\ WF_vars(Tick)

\* ------------------------------------------------------- lock properties
\* Instance i owns its key: its acquire succeeded, it has not released since,
\* and the TTL of that acquisition has not elapsed.
Holds(i) == lock[i].lease > 0

\* The step is the end of a release by instance i.
ReleaseStep(i) == lock[i].pc = "release" /\ lock'[i].pc = "ready"

\* C5: an acquire on a key that is held and not expired is refused at once
\* and leaves the stored token and expiry alone; consequently at most one
\* holder owns a given key at any time before its TTL elapses.
C5_AtMostOneHolder ==
  \A i, j \in Inst :
     (i # j /\ Holds(i) /\ Holds(j)) => lock[i].key # lock[j].key

\* C6: release deletes the key only when the stored value equals the
\* releasing holder's token; when the stored value differs or the key is
\* absent, release changes nothing in the lock store.
C6_ReleaseDeletesOnlyOwnToken ==
  [][\A i \in Inst :
        (ReleaseStep(i) /\ redis' # redis)
          => (/\ lock[i].key \in DOMAIN redis
              /\ Decode(redis[lock[i].key].value) = lock[i].lock_value)]_vars

\* C7: under every interleaving of A's release with the expiry of A's lock
\* and a later acquire of the key by B, A's release never removes the lock
\* that B holds.  Stated for holders whose tokens differ, so that only the
\* interleaving is in question.
C7_ReleaseNeverRemovesAnothersLock ==
  [][\A i, j \in Inst :
        (/\ i # j
         /\ ReleaseStep(i)
         /\ lock[j].lock_value # lock[i].lock_value
         /\ Holds(j)
         /\ lock[i].key \in DOMAIN redis
         /\ redis[lock[i].key].by = j)
          => lock[i].key \in DOMAIN redis']_vars

\* C8: any two distinct RedisLock instances have different lock_value
\* tokens, also when they were created at the same clock reading.
C8_TokensUnique ==
  \A i, j \in Inst :
     (i # j /\ lock[i].pc # "new" /\ lock[j].pc # "new")
       => lock[i].lock_value # lock[j].lock_value

\* The key of instance i is still the one a crashed worker set through i.
HeldByCrashed(i) ==
  /\ lock[i].pc = "crashed"
  /\ lock[i].key \in DOMAIN redis
  /\ redis[lock[i].key].by = i

\* C9: when a worker acquires a lock and crashes without releasing it, the
\* key expires after the TTL, so that the key is free for the acquire of
\* another worker; no lock is held forever.
C9_CrashedLockExpires ==
  \A i \in Inst :
     HeldByCrashed(i) ~> (lock[i].key \notin DOMAIN redis)

\* A worker crashed holding the key, its TTL ran out, and another worker's
\* instance has acquired the same key since.
C9_Witness ==
  \E i, j \in Inst :
     /\ i # j
     /\ lock[i].pc = "crashed" /\ lock[i].is_locked /\ lock[i].lease = 0
     /\ lock[j].key = lock[i].key
     /\ lock[j].key \in DOMAIN redis
     /\ redis[lock[j].key].by = j

\* ------------------------------------------- locks taken by "async with"
\* Workers that take the lock of an account with "async with RedisLock":
\* every block is entered once and its body ends by a return or by an error.
NextCtx ==
  \/ \E i \in Inst, k \in LockKeys : Construct(i, k)
  \/ \E i \in Inst : AEnter(i)
  \/ \E i \in Inst, how \in {"returned", "raised"} : BodyEnds(i, how)
  \/ \E i \in Inst : AExit(i)
  \/ \E i \in Inst : ReleaseDelete(i)
  \/ \E i \in Inst : AExitReturn(i)
  \/ Tick

SpecCtx == InitLock /\ [][NextCtx]_vars

\* The "async with" statement of instance i is over.
Left(i) == lock[i].ctx \in {"left_returned", "left_raised", "refused"}

\* Redis holds the key as instance i's acquisition stored it.
Stored(i) ==
  /\ lock[i].key \in DOMAIN redis
  /\ redis[lock[i].key].by = i

Isoformat(reading) ==
  <<"2", "0", "2", "4", "-", "0", "1", "-", "0", "1", "T">> \o StrInt(reading)

\* "-".join(fields)
RECURSIVE Join(_)
Join(fields) ==
  IF Len(fields) = 0 THEN << >>
  ELSE IF Len(fields) = 1 THEN fields[1]
  ELSE fields[1] \o <<"-">> \o Join(Tail(fields))

\* hashlib.sha256(combined.encode()).hexdigest()[:32], taken as free of
\* collisions: equal digests come from equal texts.
Sha256Hex32(text) == <<"sha256", text>>

\* ------------------------------------------- generate_transaction_code
\* uuid.UUID(sha256("-".join(fields)).hexdigest()[:32])
generate_transaction_code_Clocked(fields) ==
  <<"UUID", Sha256Hex32(Join(fields \o <<Isoformat(now)>>))>>

generate_transaction_code(fields) == <<"UUID", Sha256Hex32(Join(fields))>>

\* The texts handed to the generator, and the field tuples made of them.
FieldTexts == {StrInt(a) : a \in Accounts} \cup {<<"1", "-", "2">>}

FieldTuples == [1..1 -> FieldTexts] \cup [1..2 -> FieldTexts]

\* Some caller generates a code; the call is logged with the time it
\* happened at.
GenerateCode(fields) ==
  /\ Cardinality(codes) < MaxCodes
  /\ codes' = codes \cup {[fields |-> fields,
                           code |-> generate_transaction_code(fields),
                           at |-> now]}
  /\ UNCHANGED <<rows, queue, resp, calls, jobs, accts>>
  /\ UNCHANGED lockVars
  /\ UNCHANGED bankVars

\* ------------------------------------------------- TransactionFactory
\* models/enums.py TransactionType: member name |-> value
TransactionType ==
  [DEPOSIT |-> "deposit", WITHDRAWAL |-> "withdrawal",
   TRANSFER |-> "transfer", PAYMENT |-> "payment"]

TransactionTypes == {TransactionType[m] : m \in DOMAIN TransactionType}

\* TransactionFactory.create(transaction_type).  The first comparison reads
\* TransactionType.CREDIT, and reading a member the enumeration does not
\* have raises AttributeError before anything is compared.
create(transaction_type) ==
  IF "CREDIT" \notin DOMAIN TransactionType
    THEN [error |-> "AttributeError: CREDIT", strategy |-> ""]
  ELSE IF transaction_type = TransactionType["CREDIT"]
    THEN [error |-> "", strategy |-> "CreditTransaction"]
  ELSE IF transaction_type = TransactionType["WITHDRAWAL"]
    THEN [error |-> "", strategy |-> "WithdrawalTransaction"]
  ELSE IF transaction_type = TransactionType["TRANSFER"]
    THEN [error |-> "", strategy |-> "TransferTransaction"]
  ELSE [error |-> "ValueError: Unknown transaction type", strategy |-> ""]

\* A caller asks the factory for the strategy of a value.
FactoryCreate(transaction_type) ==
  /\ resp' = [op |-> "create", arg |-> transaction_type,
              error |-> create(transaction_type).error,
              strategy |-> create(transaction_type).strategy]
  /\ UNCHANGED <<rows, queue, calls, codes, jobs, accts>>
  /\ UNCHANGED lockVars
  /\ UNCHANGED bankVars

NextCode ==
  \/ \E fields \in FieldTuples : GenerateCode(fields)
  \/ \E v \in TransactionTypes \cup {"UNKNOWN_TYPE"} : FactoryCreate(v)
  \/ Tick

SpecCode == InitLock /\ [][NextCode]_vars

\* C25: for every member of TransactionType the factory returns a
\* strategy: the credit strategy for the deposit (credit) type, the
\* withdrawal strategy for withdrawal, the transfer strategy for transfer.
C25_FactoryTotalOverTypes ==
  (resp.op = "create" /\ resp.arg \in TransactionTypes)
  => /\ resp.error = ""
     /\ resp.strategy # ""
     /\ resp.arg = "deposit" => resp.strategy = "CreditTransaction"
     /\ resp.arg = "withdrawal" => resp.strategy = "WithdrawalTransaction"
     /\ resp.arg = "transfer" => resp.strategy = "TransferTransaction"

\* C26: for a value that is no transaction type the factory fails with
\* the unsupported-operation error (BadRequest) and returns no strategy,
\* and neither balances nor transactions change.
C26_UnknownTypeIsBadRequest ==
  (resp.op = "create" /\ resp.arg \notin TransactionTypes)
  => /\ resp.error = "BadRequest"
     /\ resp.strategy = ""
     /\ balance = opening
     /\ rows = << >>

Users == 1..NumUsers

\* models/enums.py AccountStatus
AccountStatuses == <<"active", "closed", "on hold">>

USD == <<"U", "S", "D">>
EUR == <<"E", "U", "R">>
Currencies == <<USD, EUR>>

\* The accounts rows the requests are served against: account a has the
\* number a, and owners, statuses and currencies differ from row to row.
AccountRow(a) ==
  [id |-> a, number |-> a,
   user_id |-> ((a - 1) % NumUsers) + 1,
   status |-> AccountStatuses[((a - 1) % 3) + 1],
   currency |-> Currencies[((a - 1) % 2) + 1]]

\* Account.get_one_by_multiple(number=..., user_id=...), then ObjectNotFound
\* when there is no row: the id of the account, or 0 for the error.
_get_user_account_by_number_AnyOwner(number, user) ==
  IF \E a \in Accounts : AccountRow(a).number = number
    THEN CHOOSE a \in Accounts : AccountRow(a).number = number
    ELSE 0

_get_user_account_by_number(number, user) ==
  IF \E a \in Accounts :
       AccountRow(a).number = number /\ AccountRow(a).user_id = user
    THEN CHOOSE a \in Accounts :
           AccountRow(a).number = number /\ AccountRow(a).user_id = user
    ELSE 0

\* _get_account_by_number(number, session): the account with that number,
\* owned by anyone, or 0 for NotFound.
_get_account_by_number(number) ==
  IF \E a \in Accounts : AccountRow(a).number = number
    THEN CHOOSE a \in Accounts : AccountRow(a).number = number
    ELSE 0

\* ------------------------------------------------------ the request path
\* RequestTransactionSchema: destination_account_number 0 is None, the
\* number NumAccounts + 1 belongs to no account.  No field is constrained.
Payloads ==
  [source_account_number : 1..(NumAccounts + 1),
   destination_account_number : 0..(NumAccounts + 1),
   amount : 0..MaxAmount,
   tax : 0..MaxTax,
   currency : {USD, EUR},
   type : TransactionTypes]

\* initiate_transaction: the metadata dict
metadata(payload, destination_account) ==
  [sender |-> payload.source_account_number,
   target_account_number |->
     IF destination_account # 0 THEN AccountRow(destination_account).number
                                ELSE 0,
   tax |-> payload.tax]

\* initiate_transaction: CreateTransactionSchema(amount=amount + tax, ...)
transaction_payload_WithoutTax(payload, source, destination_account) ==
  [amount |-> payload.amount,
   account_id |-> source,
   type |-> payload.type,
   currency |-> payload.currency,
   extra |-> metadata(payload, destination_account)]

transaction_payload(payload, source, destination_account) ==
  [amount |-> payload.amount + payload.tax,
   account_id |-> source,
   type |-> payload.type,
   currency |-> payload.currency,
   extra |-> metadata(payload, destination_account)]

\* _create_transaction: the code is generated from str(account_id), the
\* currency and datetime.now().isoformat(); Transaction.create stores the
\* row, whose status defaults to PENDING.  at and request are history.
_create_transaction(tp, payload) ==
  [code |-> generate_transaction_code(
              <<StrInt(tp.account_id), tp.currency, Isoformat(now)>>),
   type |-> tp.type, amount |-> tp.amount, account_id |-> tp.account_id,
   currency |-> tp.currency, extra |-> tp.extra, status |-> "pending",
   at |-> now, request |-> payload]

\* enqueue_task(queue, func, *args, **kwargs) called with the positional
\* arguments args on the queue q: binding fails when func is missing.
enqueue_task(q, args) ==
  IF Len(args) < 2
    THEN [error |-> "TypeError: missing required argument 'func'", queue |-> q]
    ELSE [error |-> "", queue |-> Append(q, args[2])]

\* schedule_transaction: enqueue_task(task)
schedule_transaction(q, transaction) == enqueue_task(q, <<transaction.code>>)

\* initiate_transaction(payload, user, session)
initiate_transaction(payload, user) ==
  /\ calls < MaxCalls
  /\ calls' = calls + 1
  /\ LET source == _get_user_account_by_number(
                     payload.source_account_number, user)
         destination_account ==
           IF payload.destination_account_number # 0
             THEN _get_account_by_number(payload.destination_account_number)
             ELSE 0
         transaction ==
           _create_transaction(
             transaction_payload(payload, source, destination_account),
             payload)
         scheduled == schedule_transaction(queue, transaction)
     IN  IF source = 0
              \/ (payload.destination_account_number # 0
                    /\ destination_account = 0)
           THEN /\ resp' = [op |-> "initiate", payload |-> payload,
                            user |-> user, error |-> "ObjectNotFound"]
                /\ UNCHANGED <<rows, queue>>
           ELSE /\ rows' = Append(rows, transaction)
                /\ queue' = scheduled.queue
                /\ resp' = [op |-> "initiate", payload |-> payload,
                            user |-> user, error |-> scheduled.error]
  /\ UNCHANGED <<codes, jobs, accts>>
  /\ UNCHANGED lockVars
  /\ UNCHANGED bankVars

\* The clock of datetime.now() moves on.
ClockTick ==
  /\ now < MaxClock
  /\ now' = now + 1
  /\ UNCHANGED <<redis, lock>>
  /\ UNCHANGED bankVars
  /\ UNCHANGED reqVars

\* Clients that name their own accounts, and destinations that exist, in
\* up to MaxCalls requests.
ResolvingRequests ==
  {pu \in Payloads \X Users :
     /\ _get_user_account_by_number(pu[1].source_account_number, pu[2]) # 0
     /\ \/ pu[1].destination_account_number = 0
        \/ _get_account_by_number(pu[1].destination_account_number) # 0}

NextReq ==
  \/ \E pu \in ResolvingRequests : initiate_transaction(pu[1], pu[2])
  \/ ClockTick

SpecReq == InitLock /\ [][NextReq]_vars

\* A single request.
NextReqOne ==
  \/ \E payload \in Payloads, user \in Users :
       calls < 1 /\ initiate_transaction(payload, user)
  \/ ClockTick

SpecReqOne == InitLock /\ [][NextReqOne]_vars

\* ------------------------------------------------- request properties
\* This step served a request.
Served == calls' = calls + 1

\* The accounts named by a request exist: the source as an account of the
\* caller, the destination (when one is named) as an account of anyone.
SourceOwned(payload, user) ==
  \E a \in Accounts : /\ AccountRow(a).number = payload.source_account_number
                      /\ AccountRow(a).user_id = user

DestinationFound(payload) ==
  \/ payload.destination_account_number = 0
  \/ \E a \in Accounts : AccountRow(a).number = payload.destination_account_number

\* The accounts rows a request names.
SourceOf(payload) ==
  CHOOSE a \in Accounts : AccountRow(a).number = payload.source_account_number

DestinationOf(payload) ==
  CHOOSE a \in Accounts :
    AccountRow(a).number = payload.destination_account_number

CurrencyMismatch(payload) ==
  /\ payload.destination_account_number # 0
  /\ AccountRow(DestinationOf(payload)).currency
       # AccountRow(SourceOf(payload)).currency

\* A request the contract accepts.
Acceptable(payload, user) ==
  /\ SourceOwned(payload, user)
  /\ DestinationFound(payload)
  /\ AccountRow(SourceOf(payload)).status = "active"
  /\ payload.amount > 0
  /\ ~CurrencyMismatch(payload)

\* The timestamp bucket of a clock reading.
Bucket(reading) == reading \div BucketTicks

\* C21: a call with an acceptable request succeeds: it adds one row, in
\* status PENDING, puts one work item for it on the queue, returns without
\* an error, and writes no status to the rows that were there.
C21_InitiateCreatesOneRowAndOneWorkItem ==
  [][(Served /\ Acceptable(resp'.payload, resp'.user))
     => /\ resp'.error = ""
        /\ Len(rows') = Len(rows) + 1
        /\ rows'[Len(rows')].status = "pending"
        /\ Len(queue') = Len(queue) + 1
        /\ \A i \in DOMAIN rows : rows'[i] = rows[i]]_vars

\* C22: a call whose source account number does not exist, or belongs to
\* another user, fails with ObjectNotFound, adds no row and enqueues
\* nothing.
C22_UnknownSourceIsNotFound ==
  [][(Served /\ ~SourceOwned(resp'.payload, resp'.user))
     => /\ resp'.error = "ObjectNotFound"
        /\ rows' = rows
        /\ queue' = queue]_vars

\* The number of another user's account was given, and the call failed
\* with ObjectNotFound leaving the table empty.
C22_Witness ==
  /\ resp.op = "initiate"
  /\ resp.error = "ObjectNotFound"
  /\ \E a \in Accounts :
       /\ AccountRow(a).number = resp.payload.source_account_number
       /\ AccountRow(a).user_id # resp.user
  /\ rows = << >>
  /\ queue = << >>

\* C23: a call with an amount of 0 or less, or with a destination of
\* another currency than the source, fails, adds no row and enqueues
\* nothing; so every stored row has an amount above 0.
C23_InvalidRequestCreatesNothing ==
  [][(/\ Served
      /\ SourceOwned(resp'.payload, resp'.user)
      /\ DestinationFound(resp'.payload)
      /\ (resp'.payload.amount <= 0 \/ CurrencyMismatch(resp'.payload)))
     => /\ resp'.error # ""
        /\ rows' = rows
        /\ queue' = queue
        /\ \A i \in DOMAIN rows' : rows'[i].amount > 0]_vars

\* C24: a call whose source account is CLOSED or ON_HOLD adds no row and
\* enqueues nothing.
C24_SourceMustBeActive ==
  [][(/\ Served
      /\ SourceOwned(resp'.payload, resp'.user)
      /\ AccountRow(SourceOf(resp'.payload)).status # "active")
     => /\ rows' = rows
        /\ queue' = queue]_vars

\* C28: a request repeated with the same fields in the same timestamp
\* bucket is given the code of the original.
C28_RetryGetsSameCode ==
  \A i, j \in DOMAIN rows :
    (/\ rows[i].request = rows[j].request
     /\ rows[i].account_id = rows[j].account_id
     /\ Bucket(rows[i].at) = Bucket(rows[j].at))
    => rows[i].code = rows[j].code

\* C29: two transactions of one account created in the same timestamp
\* bucket that differ in destination, type or amount have different codes.
C29_DistinctTransactionsGetDistinctCodes ==
  \A i, j \in DOMAIN rows :
    (/\ i # j
     /\ rows[i].account_id = rows[j].account_id
     /\ Bucket(rows[i].at) = Bucket(rows[j].at)
     /\ \/ rows[i].extra.target_account_number
             # rows[j].extra.target_account_number
        \/ rows[i].type # rows[j].type
        \/ rows[i].amount # rows[j].amount)
    => rows[i].code # rows[j].code

NumItems == 2          \* work items that can be enqueued
NumWorkers == 2        \* worker processes listening on the queue

Items == 1..NumItems
Workers == 1..NumWorkers

\* What can be handed over as func: an async def such as
\* process_transaction_in_background, a plain function that returns, a
\* plain function that raises, and a coroutine object.
Funcs == {"async_function", "function", "raising_function", "coroutine"}

\* asyncio.iscoroutine(func): true of coroutine objects only, not of the
\* functions that make them
iscoroutine(func) == func = "coroutine"

\* func(*args, **kwargs): the outcome of the call itself. Calling an async
\* function makes a coroutine object and runs nothing of its body;
\* a coroutine object is not callable.
Call(func) ==
  CASE func = "async_function"   -> [error |-> "", ran |-> 0,
                                     returned |-> "coroutine"]
    [] func = "function"         -> [error |-> "", ran |-> 1,
                                     returned |-> "None"]
    [] func = "raising_function" -> [error |-> "Exception", ran |-> 0,
                                     returned |-> ""]
    [] func = "coroutine"        ->
         [error |-> "TypeError: 'coroutine' object is not callable",
          ran |-> 0, returned |-> ""]

\* loop.run_until_complete(c): a coroutine object is run to completion,
\* anything else that is not awaitable is refused
run_until_complete(called) ==
  IF called.error # "" THEN called
  ELSE IF called.returned = "coroutine"
         THEN [error |-> "", ran |-> 1, returned |-> "None"]
         ELSE [called EXCEPT !.error = "TypeError: An asyncio.Future, a coroutine or an awaitable is required"]

\* async_to_sync_wrapper(func, *args, **kwargs): what the call raised and
\* how many times the body of func ran to completion
async_to_sync_wrapper(func) ==
  IF iscoroutine(func) THEN run_until_complete(Call(func))
                       ELSE Call(func)

NoJob == [func |-> "", state |-> "new", calls |-> 0, ran |-> 0, error |-> ""]

\* Nothing was enqueued and every worker is idle.
NoJobs == [item |-> [i \in Items |-> NoJob],
           enqueued |-> << >>,
           started |-> << >>,
           worker |-> [w \in Workers |-> 0]]

\* add_task with queue.enqueue(..., at_front=True)
add_task_AtFront(i, func) ==
  /\ jobs.item[i].state = "new"
  /\ queue' = <<i>> \o queue
  /\ jobs' = [jobs EXCEPT !.item[i].func = func,
                          !.item[i].state = "queued",
                          !.enqueued = Append(@, i)]
  /\ UNCHANGED <<rows, resp, calls, codes, accts>>
  /\ UNCHANGED lockVars
  /\ UNCHANGED bankVars

\* await QueueManager.add_task(async_to_sync_wrapper, func, *args):
\* queue.enqueue puts the job at the tail of the shared queue.
add_task(i, func) ==
  /\ jobs.item[i].state = "new"
  /\ queue' = Append(queue, i)
  /\ jobs' = [jobs EXCEPT !.item[i].func = func,
                          !.item[i].state = "queued",
                          !.enqueued = Append(@, i)]
  /\ UNCHANGED <<rows, resp, calls, codes, accts>>
  /\ UNCHANGED lockVars
  /\ UNCHANGED bankVars

\* worker.work(): an idle worker takes the job at the head of the queue;
\* from here on the job is being processed.
Dequeue(w) ==
  /\ jobs.worker[w] = 0
  /\ queue # << >>
  /\ queue' = Tail(queue)
  /\ jobs' = [jobs EXCEPT !.item[Head(queue)].state = "started",
                          !.started = Append(@, Head(queue)),
                          !.worker[w] = Head(queue)]
  /\ UNCHANGED <<rows, resp, calls, codes, accts>>
  /\ UNCHANGED lockVars
  /\ UNCHANGED bankVars

\* a worker that puts the job back on the queue when the call raised
Perform_RequeueOnError(w) ==
  /\ jobs.worker[w] # 0
  /\ LET i == jobs.worker[w]
         out == async_to_sync_wrapper(jobs.item[i].func)
     IN /\ jobs' = [jobs EXCEPT
                      !.item[i].state = IF out.error = "" THEN "finished"
                                                          ELSE "queued",
                      !.item[i].calls = @ + 1,
                      !.item[i].ran = @ + out.ran,
                      !.item[i].error = out.error,
                      !.worker[w] = 0]
        /\ queue' = IF out.error = "" \/ jobs.item[i].calls >= 1
                      THEN queue ELSE Append(queue, i)
  /\ UNCHANGED <<rows, resp, calls, codes, accts>>
  /\ UNCHANGED lockVars
  /\ UNCHANGED bankVars

\* The worker performs the job it took: it calls
\* async_to_sync_wrapper(func, *args). The wrapper catches nothing and
\* enqueues nothing, so a call that raised leaves the job failed and the
\* queue as it was; the worker goes on to the next job either way.
Perform(w) ==
  /\ jobs.worker[w] # 0
  /\ LET i == jobs.worker[w]
         out == async_to_sync_wrapper(jobs.item[i].func)
     IN jobs' = [jobs EXCEPT
                   !.item[i].state = IF out.error = "" THEN "finished"
                                                       ELSE "failed",
                   !.item[i].calls = @ + 1,
                   !.item[i].ran = @ + out.ran,
                   !.item[i].error = out.error,
                   !.worker[w] = 0]
  /\ UNCHANGED <<rows, queue, resp, calls, codes, accts>>
  /\ UNCHANGED lockVars
  /\ UNCHANGED bankVars

InitQueue ==
  /\ now = 0
  /\ redis = << >>
  /\ lock = [i \in Inst |-> NoLock]
  /\ balance = [a \in Accounts |-> 0]
  /\ opening = [a \in Accounts |-> 0]
  /\ txn = << >>
  /\ proc = << >>
  /\ rows = << >>
  /\ queue = << >>
  /\ resp = [op |-> ""]
  /\ calls = 0
  /\ codes = {}
  /\ jobs = NoJobs
  /\ accts = << >>

NextQueue ==
  \/ \E i \in Items, func \in Funcs : add_task(i, func)
  \/ \E w \in Workers : Dequeue(w)
  \/ \E w \in Workers : Perform(w)

SpecQueue == InitQueue /\ [][NextQueue]_vars

\* The workers keep working: a job at hand is performed, a job on the
\* queue is taken.
SpecQueueLive ==
  /\ SpecQueue
  /\ \A w \in Workers : WF_vars(Perform(w))
  /\ WF_vars(\E w \in Workers : Dequeue(w))

\* The worker reported item i as processed.
Processed(i) == jobs.item[i].state \in {"finished", "failed"}

\* C31: every work item the queue accepted and a worker reported as
\* processed was called once, and if the call returned, the body of its
\* function ran to completion exactly once (never zero times, never
\* twice).
C31_ProcessedItemsRanExactlyOnce ==
  \A i \in Items :
    Processed(i)
    => /\ jobs.item[i].calls = 1
       /\ jobs.item[i].state = "finished" => jobs.item[i].ran = 1

Raised(i) == jobs.item[i].error # ""

C39_WrapperRunsTheCoroutine ==
  \A i \in Items :
    (jobs.item[i].func = "async_function" /\ jobs.item[i].state = "finished")
    => jobs.item[i].ran >= 1

\* ------------------------------------------- lock keys of all entities
MaxId == 11            \* primary keys 1..MaxId

\* Class names are Python identifiers: letters, digits and "_", never "-",
\* and no digit in front.
ClassNames == {<<"A">>, <<"A", "1">>, <<"A", "_">>, <<"_", "1", "1">>}

\* construct_resource_lock_key(instance) for an instance of class cls with
\* primary key id; the call is logged.
ConstructKey(cls, id) ==
  /\ Cardinality(codes) < MaxCodes
  /\ codes' = codes \cup {[cls |-> cls, id |-> id,
                           key |-> construct_resource_lock_key(cls, id)]}
  /\ UNCHANGED <<rows, queue, resp, calls, jobs, accts>>
  /\ UNCHANGED lockVars
  /\ UNCHANGED bankVars

NextKey == \E cls \in ClassNames, id \in 1..MaxId : ConstructKey(cls, id)

SpecKey == InitLock /\ [][NextKey]_vars

\* C34: two entities have the same lock key exactly when they have the
\* same class name and the same id.
C34_LockKeysAreInjective ==
  \A x, y \in codes :
    (x.key = y.key) <=> (x.cls = y.cls /\ x.id = y.id)

\* Keys were made for two different entities whose class name followed by
\* the id reads the same ("A1" and 1, "A" and 11).
C34_Witness ==
  \E x, y \in codes :
    /\ x.cls # y.cls
    /\ x.cls \o StrInt(x.id) = y.cls \o StrInt(y.id)

\* ------------------------------------------------- opening an account
USER_MAX_ACCOUNT_LIMIT == 2   \* server.utils.constants: accounts a user may own
NumReqs == 2                  \* requests to open an account in flight

Reqs == 1..NumReqs

NoReq == [pc |-> "idle", user |-> 0, user_accounts |-> 0, error |-> ""]

\* create_user_account: user_accounts = await _list_user_accounts(user,
\* session), the rows of the accounts table with user_id = user.
ListUserAccounts(r, user) ==
  /\ accts.req[r].pc = "idle"
  /\ accts' = [accts EXCEPT !.req[r] = [pc |-> "listed", user |-> user,
                                        user_accounts |-> accts.owned[user],
                                        error |-> ""]]
  /\ UNCHANGED <<rows, queue, resp, calls, codes, jobs>>
  /\ UNCHANGED lockVars
  /\ UNCHANGED bankVars

\* create_user_account after the listing: BadRequest when
\* len(user_accounts) >= USER_MAX_ACCOUNT_LIMIT, else
\* await Account.create(session, **data) adds a row for the user.
CreateAccount(r) ==
  /\ accts.req[r].pc = "listed"
  /\ IF accts.req[r].user_accounts >= USER_MAX_ACCOUNT_LIMIT
       THEN accts' = [accts EXCEPT !.req[r].pc = "raised",
                                   !.req[r].error = "BadRequest"]
       ELSE accts' = [accts EXCEPT !.req[r].pc = "returned",
                                   !.owned[accts.req[r].user] = @ + 1]
  /\ UNCHANGED <<rows, queue, resp, calls, codes, jobs>>
  /\ UNCHANGED lockVars
  /\ UNCHANGED bankVars

\* The response is sent; the next request can come.
NextRequest(r) ==
  /\ accts.req[r].pc \in {"raised", "returned"}
  /\ accts' = [accts EXCEPT !.req[r] = NoReq]
  /\ UNCHANGED <<rows, queue, resp, calls, codes, jobs>>
  /\ UNCHANGED lockVars
  /\ UNCHANGED bankVars

\* Every user owns some accounts within the limit; no request is in
\* flight.
InitAccts ==
  /\ now = 0
  /\ redis = << >>
  /\ lock = [i \in Inst |-> NoLock]
  /\ balance = [a \in Accounts |-> 0]
  /\ opening = [a \in Accounts |-> 0]
  /\ txn = << >>
  /\ proc = << >>
  /\ rows = << >>
  /\ queue = << >>
  /\ resp = [op |-> ""]
  /\ calls = 0
  /\ codes = {}
  /\ jobs = << >>
  /\ accts \in [owned : [Users -> 0..USER_MAX_ACCOUNT_LIMIT],
                req : {[r \in Reqs |-> NoReq]}]

NextAccts ==
  \/ \E r \in Reqs, user \in Users : ListUserAccounts(r, user)
  \/ \E r \in Reqs : CreateAccount(r)
  \/ \E r \in Reqs : NextRequest(r)

SpecAccts == InitAccts /\ [][NextAccts]_vars

\* C35: a request of a user who already owns USER_MAX_ACCOUNT_LIMIT
\* accounts or more is refused and creates nothing, so that no user ever
\* owns more accounts than the limit, whatever requests ran, also when two
\* requests of one user run at the same time.
C35_NeverMoreThanTheLimit ==
  \A user \in Users : accts.owned[user] <= USER_MAX_ACCOUNT_LIMIT

\* --------------------------------------------- fetching a transaction
NumTxCodes == 2        \* reference codes that exist or are asked for

\* The reference codes: codes as generate_transaction_code makes them.
TxCodes == {generate_transaction_code(<<StrInt(c)>>) : c \in 1..NumTxCodes}

\* the lookup by code alone, account_id left out of the filter
_get_transaction_by_code_AnyAccount(account_id, code) ==
  {i \in DOMAIN rows : rows[i].code = code}

\* _get_transaction_by_code: Transaction.get_one_by_multiple(
\* account_id=account_id, code=code) selects the rows with that account
\* and that code, and first() takes one of them.
_get_transaction_by_code(account_id, code) ==
  {i \in DOMAIN rows : rows[i].account_id = account_id /\ rows[i].code = code}

\* TransactionSchema.model_validate(transaction): the view handed out
TransactionSchema(transaction) ==
  [code |-> transaction.code, account_id |-> transaction.account_id]

\* fetch_transaction_by_code(code, user, account_number, session)
fetch_transaction_by_code(code, user, account_number) ==
  /\ LET account == _get_user_account_by_number(account_number, user)
         found == _get_transaction_by_code(account, code)
     IN IF account = 0 \/ found = {}
          THEN resp' = [op |-> "fetch", code |-> code, user |-> user,
                        account_number |-> account_number,
                        error |-> "ObjectNotFound", view |-> None]
          ELSE \E i \in found :
                 resp' = [op |-> "fetch", code |-> code, user |-> user,
                          account_number |-> account_number,
                          error |-> "",
                          view |-> TransactionSchema(rows[i])]
  /\ UNCHANGED <<rows, queue, calls, codes, jobs, accts>>
  /\ UNCHANGED lockVars
  /\ UNCHANGED bankVars

\* The transactions table holds some rows, each of some account and with
\* some code; nothing was asked yet.
InitFetch ==
  /\ now = 0
  /\ redis = << >>
  /\ lock = [i \in Inst |-> NoLock]
  /\ balance = [a \in Accounts |-> 0]
  /\ opening = [a \in Accounts |-> 0]
  /\ txn = << >>
  /\ proc = << >>
  /\ rows \in [Txns -> [account_id : Accounts, code : TxCodes]]
  /\ queue = << >>
  /\ resp = [op |-> ""]
  /\ calls = 0
  /\ codes = {}
  /\ jobs = << >>
  /\ accts = << >>

NextFetch ==
  \E code \in TxCodes, user \in Users, number \in 1..(NumAccounts + 1) :
    fetch_transaction_by_code(code, user, number)

SpecFetch == InitFetch /\ [][NextFetch]_vars

\* The accounts with that number that the user owns.
OwnedByNumber(number, user) ==
  {a \in Accounts : AccountRow(a).number = number
                    /\ AccountRow(a).user_id = user}

\* C36: fetch_transaction_by_code hands out a transaction only when the
\* account number is one of the caller's accounts and a transaction with
\* that code belongs to that account, and then it is such a transaction;
\* in every other case the answer is ObjectNotFound without a view, the
\* same whatever the accounts of other users hold.
C36_FetchOnlyOwnTransactions ==
  resp.op = "fetch"
  => LET own == {i \in DOMAIN rows :
                   /\ rows[i].account_id
                        \in OwnedByNumber(resp.account_number, resp.user)
                   /\ rows[i].code = resp.code}
     IN IF own # {}
          THEN /\ resp.error = ""
               /\ \E i \in own : resp.view = TransactionSchema(rows[i])
          ELSE /\ resp.error = "ObjectNotFound"
               /\ resp.view = None

\* A user asked with one of their own account numbers for a code that
\* exists only on the account of another user, and was told not found.
C36_Witness ==
  /\ resp.op = "fetch"
  /\ OwnedByNumber(resp.account_number, resp.user) # {}
  /\ \E i \in DOMAIN rows :
       /\ rows[i].code = resp.code
       /\ AccountRow(rows[i].account_id).user_id # resp.user
  /\ \A i \in DOMAIN rows :
       rows[i].code = resp.code
       => rows[i].account_id \notin OwnedByNumber(resp.account_number, resp.user)
  /\ resp.error = "ObjectNotFound"

\* ------------------------------------- from the request to the strategy
\* dict.get(key): the value under the key, or None (0 among account ids)
Get(dict, key) == IF key \in DOMAIN dict THEN dict[key] ELSE 0

\* TransferTransaction.execute: transaction.metadata.get("target_account_id")
\* read from the metadata dict stored with the row
target_account_id(transaction) == Get(transaction.extra, "target_account_id")

\* C37: for every transfer the orchestrator created with a destination
\* that resolves, the strategy reads from the stored metadata the
\* destination account the orchestrator resolved.
C37_StrategyReadsWhatOrchestratorWrote ==
  \A i \in DOMAIN rows :
    (/\ rows[i].type = "transfer"
     /\ rows[i].request.destination_account_number # 0
     /\ DestinationFound(rows[i].request))
    => target_account_id(rows[i]) = DestinationOf(rows[i].request)

\* ------------------------------------- transfers to a missing account
\* Transfers whose metadata names an account id that no row has.
UnresolvedTransfers ==
  [strategy : {"TransferTransaction"},
   account_id : Accounts, amount : 1..MaxAmount,
   target_account_id : {NumAccounts + 1}, status : {"pending"}]

\* One worker settles transaction 1, which can be any transaction, also a
\* transfer to an account that does not exist.
InitXfer ==
  /\ now = 0
  /\ redis = << >>
  /\ lock = [i \in Inst |-> NoLock]
  /\ balance \in [Accounts -> 0..MaxBalance]
  /\ opening = balance
  /\ txn \in {f \in [Txns -> TxnShapes \cup UnresolvedTransfers] :
               \A t \in Txns \ {1} :
                 f[t] = [strategy |-> "CreditTransaction", account_id |-> 1,
                         amount |-> 1, target_account_id |-> 0,
                         status |-> "pending"]}
  /\ proc = [t \in Txns |-> IF t = 1 THEN NoProc
                                     ELSE [NoProc EXCEPT !.pc = "idle"]]
  /\ NoRequests

SpecXfer == InitXfer /\ [][Next]_vars

\* C38: a transfer that ended with an error, its destination missing from
\* the metadata or not resolving to an account, has left the balance of
\* the source as it was: the source is never debited without the
\* destination being credited by the same transfer.
C38_FailedTransferLeavesSourceUntouched ==
  \A t \in Txns :
    (txn[t].strategy = "TransferTransaction" /\ proc[t].pc = "raised")
    => balance[txn[t].account_id] = opening[txn[t].account_id]

\* C40: the text that generate_transaction_code hashes determines the
\* field tuple: two different ordered tuples of fields never give the same
\* joined text.
C40_JoinedTextIsUnambiguous ==
  \A x, y \in codes :
    x.fields # y.fields => Join(x.fields) # Join(y.fields)

====
